---- MODULE Spec2Model ----
(***************************************************************************)
(* The SCU waste dashboard (app.py): one Streamlit script that loads and   *)
(* cleans waste_data.csv, groups it by (Year, Category), reindexes the     *)
(* grouped table against the year range and the categories chosen in the   *)
(* sidebar, and hands the result to the chart and table views.  The        *)
(* script is re-run from the top after every widget change; only the       *)
(* st.cache_data cache and the widget values survive a re-run.             *)
(*                                                                         *)
(* Text is a sequence of one-character strings, so that strip(), title(),  *)
(* sorted() and the numeric parsers are computed and not assumed.  A       *)
(* pandas cell is a tagged record: Nan, Str(text) or Num(integer).         *)
(* Weights are whole numbers of pounds.                                    *)
(***************************************************************************)
EXTENDS Integers, Sequences, FiniteSets, TLC

VARIABLES
    file,                \* waste_data.csv: "absent", "unreadable" or its data rows
    cache,               \* st.cache_data's entry for load_data()
    slider,              \* widget state of the year select_slider
    multi,               \* widget state of the category multiselect
    pc,                  \* position of the script run
    error,               \* the exception that stopped the run, or "none"
    df,                  \* script variables, in the order the script binds them
    df_grouped,
    categories_unique,
    min_year,
    max_year,
    selected_categories,
    filtered_df,
    agg_pie,
    views,               \* what was handed to st.plotly_chart / st.dataframe
    first_df             \* history: what the first successful load returned

vars == <<file, cache, slider, multi, pc, error, df, df_grouped,
          categories_unique, min_year, max_year, selected_categories,
          filtered_df, agg_pie, views, first_df>>

----------------------------------------------------------------------------
(* Bounds of the model.                                                    *)

MaxRecords == 2

----------------------------------------------------------------------------
(* Text.                                                                   *)

Whitespace == {" "}
LowerCase == {"a", "e", "g", "l", "p", "r", "s"}
UpperCase == {"A", "E", "G", "L", "P", "R", "S"}
Digits == {"0", "1", "2", "3", "4", "5", "6", "7", "8", "9"}

Upper(c) ==
    CASE c = "a" -> "A" [] c = "e" -> "E" [] c = "g" -> "G" [] c = "l" -> "L"
      [] c = "p" -> "P" [] c = "r" -> "R" [] c = "s" -> "S" [] OTHER -> c

Lower(c) ==
    CASE c = "A" -> "a" [] c = "E" -> "e" [] c = "G" -> "g" [] c = "L" -> "l"
      [] c = "P" -> "p" [] c = "R" -> "r" [] c = "S" -> "s" [] OTHER -> c

IsCased(c) == c \in LowerCase \cup UpperCase

\* Code point of a character, for sorted().
Ord(c) ==
    CASE c = " " -> 32 [] c = "-" -> 45
      [] c = "0" -> 48 [] c = "1" -> 49 [] c = "2" -> 50 [] c = "3" -> 51
      [] c = "4" -> 52 [] c = "5" -> 53 [] c = "6" -> 54 [] c = "7" -> 55
      [] c = "8" -> 56 [] c = "9" -> 57
      [] c = "A" -> 65 [] c = "E" -> 69 [] c = "G" -> 71 [] c = "L" -> 76
      [] c = "P" -> 80 [] c = "R" -> 82 [] c = "S" -> 83
      [] c = "a" -> 97 [] c = "e" -> 101 [] c = "g" -> 103 [] c = "l" -> 108
      [] c = "p" -> 112 [] c = "r" -> 114 [] c = "s" -> 115

RECURSIVE LStrip(_)
LStrip(s) ==
    IF s # <<>> /\ Head(s) \in Whitespace THEN LStrip(Tail(s)) ELSE s

RECURSIVE RStrip(_)
RStrip(s) ==
    IF s # <<>> /\ s[Len(s)] \in Whitespace
    THEN RStrip(SubSeq(s, 1, Len(s) - 1))
    ELSE s

\* lstrip() in the place of strip().
StripLeadingOnly(s) == LStrip(s)

\* str.strip()
Strip(s) == RStrip(LStrip(s))

\* str.title(): a cased character is upper-cased when the character before it
\* is not cased (or there is none), lower-cased otherwise.
Title(s) ==
    [i \in 1..Len(s) |->
        IF i > 1 /\ IsCased(s[i - 1]) THEN Lower(s[i]) ELSE Upper(s[i])]

\* Python's string order: by code point, a proper prefix first.
RECURSIVE StrLess(_, _)
StrLess(s, t) ==
    IF t = <<>> THEN FALSE
    ELSE IF s = <<>> THEN TRUE
    ELSE IF Head(s) # Head(t) THEN Ord(Head(s)) < Ord(Head(t))
    ELSE StrLess(Tail(s), Tail(t))

DigitVal(c) == Ord(c) - 48

IsDigits(s) == s # <<>> /\ \A i \in 1..Len(s) : s[i] \in Digits

\* Text that parses as a whole number: digits with an optional sign.
IsNumeric(s) ==
    \/ IsDigits(s)
    \/ s # <<>> /\ Head(s) = "-" /\ IsDigits(Tail(s))

RECURSIVE DigitsVal(_)
DigitsVal(s) ==
    IF s = <<>> THEN 0
    ELSE 10 * DigitsVal(SubSeq(s, 1, Len(s) - 1)) + DigitVal(s[Len(s)])

ParseInt(s) == IF Head(s) = "-" THEN 0 - DigitsVal(Tail(s)) ELSE DigitsVal(s)

----------------------------------------------------------------------------
(* pandas cells.                                                           *)

Nan == [k |-> "nan"]
Str(s) == [k |-> "str", v |-> s]
Num(n) == [k |-> "num", v |-> n]

IsNa(cell) == cell.k = "nan"

----------------------------------------------------------------------------
(* pd.read_csv: the file is a header and data rows of three text fields;   *)
(* an empty field is read as NaN.  A column whose non-empty fields all     *)
(* parse as numbers becomes a numeric column; one unparseable field makes  *)
(* it an object column that keeps every field as text.  A file with no     *)
(* data row has object columns.                                            *)

Absent == [state |-> "absent", rows |-> <<>>]
Unreadable == [state |-> "unreadable", rows |-> <<>>]
Csv(rows) == [state |-> "present", rows |-> rows]

Columns == {"Category", "Weight", "Year"}

IsObjectColumn(rows, col) ==
    \/ rows = <<>>
    \/ \E i \in 1..Len(rows) : rows[i][col] # <<>> /\ ~IsNumeric(rows[i][col])

ReadCell(field, isObject) ==
    IF field = <<>> THEN Nan
    ELSE IF isObject THEN Str(field)
    ELSE Num(ParseInt(field))

ReadCsv(rows) ==
    [i \in 1..Len(rows) |->
        [col \in Columns |-> ReadCell(rows[i][col], IsObjectColumn(rows, col))]]

\* Line 12: .str.strip().str.title() on one cell; NaN stays NaN.
NormalizeCategory(cell) ==
    IF cell.k = "str" THEN Str(Title(Strip(cell.v))) ELSE cell

\* Line 13: pd.to_numeric(..., errors="coerce") on one cell.
ToNumeric(cell) ==
    IF cell.k = "num" THEN cell
    ELSE IF cell.k = "str" /\ IsNumeric(cell.v) THEN Num(ParseInt(cell.v))
    ELSE Nan

\* dropna without "Category" in its subset.
DropNaKeepsAnyCategory(r) == ~IsNa(r.Weight) /\ ~IsNa(r.Year)

\* Line 14: the rows dropna(subset=["Weight (lbs)", "Year", "Category"]) keeps.
DropNaKeeps(r) == ~IsNa(r.Weight) /\ ~IsNa(r.Year) /\ ~IsNa(r.Category)

DropNa(rows) == SelectSeq(rows, DropNaKeeps)

\* Line 15: astype(int) on one cell: int() of a text cell raises ValueError
\* when the text is no integer literal.
CanCastInt(cell) == cell.k = "num" \/ (cell.k = "str" /\ IsNumeric(cell.v))

CastInt(cell) == IF cell.k = "str" THEN Num(ParseInt(cell.v)) ELSE cell

\* A read that falls back to an empty frame when the file cannot be opened.
ReadErrorSwallowed(f) == "none"

\* Line 11: the exception pd.read_csv raises when it cannot open the file.
ReadError(f) ==
    CASE f.state = "absent" -> "FileNotFoundError"
      [] f.state = "unreadable" -> "PermissionError"
      [] OTHER -> "none"

\* Lines 10-16: the body of load_data, run on the file as it is.  The result
\* is the exception raised ("none" when it returns) and the frame returned.
Raised(e) == [err |-> e, df |-> <<>>]

LoadData(f) ==
    IF ReadError(f) # "none" THEN Raised(ReadError(f))
    ELSE IF ~IsObjectColumn(f.rows, "Category") THEN Raised("AttributeError")
    ELSE LET raw == ReadCsv(f.rows)
             norm == [i \in 1..Len(raw) |->
                        [raw[i] EXCEPT !.Category = NormalizeCategory(@)]]
             num == [i \in 1..Len(norm) |->
                        [norm[i] EXCEPT !.Weight = ToNumeric(@)]]
             kept == DropNa(num)
         IN  IF \E i \in 1..Len(kept) : ~CanCastInt(kept[i].Year)
             THEN Raised("ValueError")
             ELSE [err |-> "none",
                   df |-> [i \in 1..Len(kept) |->
                             [kept[i] EXCEPT !.Year = CastInt(@)]]]

----------------------------------------------------------------------------
(* Grouping and reindexing.                                                *)

\* The smallest text of a non-empty set, and sorted() of a set of texts.
MinStr(S) == CHOOSE s \in S : \A t \in S : t = s \/ StrLess(s, t)

RECURSIVE SortedStrs(_)
SortedStrs(S) ==
    IF S = {} THEN <<>>
    ELSE <<MinStr(S)>> \o SortedStrs(S \ {MinStr(S)})

\* (Year, Category) keys in groupby's order: by Year, then by Category.
KeyLess(a, b) == a[1] < b[1] \/ (a[1] = b[1] /\ StrLess(a[2], b[2]))

MinKey(S) == CHOOSE a \in S : \A b \in S : b = a \/ KeyLess(a, b)

RECURSIVE SortedKeys(_)
SortedKeys(S) ==
    IF S = {} THEN <<>>
    ELSE <<MinKey(S)>> \o SortedKeys(S \ {MinKey(S)})

\* Line 21: groupby(["Year", "Category"])["Weight (lbs)"].sum().reset_index().
\* One row per key that occurs (rows with a NaN key are left out), sorted.
GroupKeys(rows) ==
    {<<rows[i].Year.v, rows[i].Category.v>> :
        i \in {j \in 1..Len(rows) : ~IsNa(rows[j].Year) /\ ~IsNa(rows[j].Category)}}

HasKey(r, key) ==
    ~IsNa(r.Year) /\ ~IsNa(r.Category)
    /\ r.Year.v = key[1] /\ r.Category.v = key[2]

\* first() in the place of sum(): the weight of the group's first row.
GroupFirst(rows, key) ==
    LET hit == {i \in 1..Len(rows) : HasKey(rows[i], key)}
    IN  IF hit = {} THEN 0
        ELSE rows[CHOOSE i \in hit : \A j \in hit : i <= j].Weight.v

\* Series.sum() over the rows of one group; NaN cells are skipped.
RECURSIVE GroupSum(_, _)
GroupSum(rows, key) ==
    IF rows = <<>> THEN 0
    ELSE (IF HasKey(Head(rows), key) /\ Head(rows).Weight.k = "num"
          THEN Head(rows).Weight.v ELSE 0)
         + GroupSum(Tail(rows), key)

GroupBy(rows) ==
    LET keys == SortedKeys(GroupKeys(rows))
    IN  [i \in 1..Len(keys) |->
            [Year |-> keys[i][1], Category |-> keys[i][2],
             Weight |-> GroupSum(rows, keys[i])]]

\* Line 25: sorted(df_grouped["Category"].unique()).
CategoriesUnique(grouped) ==
    SortedStrs({grouped[i].Category : i \in 1..Len(grouped)})

\* Line 24: list(range(2005, 2026)).
FirstYear == 2005
LastYear == 2025

\* The options taken from one year earlier.
years_from_2004 == [i \in 1..(LastYear - FirstYear + 2) |-> FirstYear + i - 2]

years_full == [i \in 1..(LastYear - FirstYear + 1) |-> FirstYear + i - 1]

\* range(lo, hi) in the place of range(lo, hi + 1).
FromProductExclusive(lo, hi, cats) ==
    LET n == IF hi < lo THEN 0 ELSE hi - lo
        m == Len(cats)
    IN  [i \in 1..(n * m) |-> <<lo + ((i - 1) \div m), cats[((i - 1) % m) + 1]>>]

\* A range whose ends are put in order before it is expanded.
FromProductOrdered(lo, hi, cats) ==
    LET a == IF hi < lo THEN hi ELSE lo
        b == IF hi < lo THEN lo ELSE hi
        m == Len(cats)
    IN  [i \in 1..((b - a + 1) * m) |->
            <<a + ((i - 1) \div m), cats[((i - 1) % m) + 1]>>]

\* Lines 45-48: MultiIndex.from_product([range(lo, hi + 1), cats]): every year
\* of the range, in order, with every category, in the order selected.
FromProduct(lo, hi, cats) ==
    LET n == IF hi < lo THEN 0 ELSE hi - lo + 1
        m == Len(cats)
    IN  [i \in 1..(n * m) |-> <<lo + ((i - 1) \div m), cats[((i - 1) % m) + 1]>>]

\* Lines 50-52: set_index(...).reindex(index, fill_value=0).reset_index().
\* One row per key of the index, in its order: the grouped row's value when
\* the grouped table has the key, 0 otherwise.
Lookup(grouped, key) ==
    LET hit == {j \in 1..Len(grouped) :
                   grouped[j].Year = key[1] /\ grouped[j].Category = key[2]}
    IN  IF hit = {} THEN 0 ELSE grouped[CHOOSE j \in hit : TRUE].Weight

Reindex(grouped, index) ==
    [i \in 1..Len(index) |->
        [Year |-> index[i][1], Category |-> index[i][2],
         Weight |-> Lookup(grouped, index[i])]]

\* A total taken over the whole table, whatever the category.
RECURSIVE SumAnyCategory(_, _)
SumAnyCategory(table, c) ==
    IF table = <<>> THEN 0
    ELSE Head(table).Weight + SumAnyCategory(Tail(table), c)

\* Line 62: filtered_df.groupby("Category")["Weight (lbs)"].sum().reset_index().
RECURSIVE SumCategory(_, _)
SumCategory(table, c) ==
    IF table = <<>> THEN 0
    ELSE (IF Head(table).Category = c THEN Head(table).Weight ELSE 0)
         + SumCategory(Tail(table), c)

AggPie(table) ==
    LET cats == SortedStrs({table[i].Category : i \in 1..Len(table)})
    IN  [i \in 1..Len(cats) |->
            [Category |-> cats[i], Weight |-> SumCategory(table, cats[i])]]

----------------------------------------------------------------------------
(* The script run.  pc is "start" before line 18, "loaded" after it,       *)
(* "grouped" after line 25, "filtered" after line 52 and "done" after the  *)
(* last line; "failed" when an exception stopped the run.                  *)

Unset == [set |-> FALSE]
Set(v) == [set |-> TRUE, v |-> v]

\* Line 9: @st.cache_data on a function without arguments: the body runs
\* when the cache holds no entry, and a raised exception is not cached.
CachedLoad(f, c) ==
    IF c.set THEN [err |-> "none", df |-> c.v] ELSE LoadData(f)

\* A widget that forgets what the user gave it.
WidgetDefault(state, default) == default

\* Lines 31-42: a widget returns the value the user last gave it, or its
\* default while the user has not touched it.
WidgetValue(state, default) == IF state.set THEN state.v ELSE default

SliderDefault == <<years_full[1], years_full[Len(years_full)]>>

\* What a run binds is unbound again when the script is re-run.
ScriptReset ==
    /\ pc' = "start"
    /\ error' = "none"
    /\ df' = <<>>
    /\ df_grouped' = <<>>
    /\ categories_unique' = <<>>
    /\ min_year' = 0
    /\ max_year' = 0
    /\ selected_categories' = <<>>
    /\ filtered_df' = <<>>
    /\ agg_pie' = <<>>
    /\ views' = <<>>

\* Line 18: df = load_data().
Load ==
    /\ pc = "start"
    /\ LET r == CachedLoad(file, cache)
       IN  IF r.err = "none"
           THEN /\ pc' = "loaded"
                /\ df' = r.df
                /\ cache' = Set(r.df)
                /\ first_df' = IF first_df.set THEN first_df ELSE Set(r.df)
                /\ error' = error
           ELSE /\ pc' = "failed"
                /\ error' = r.err
                /\ UNCHANGED <<df, cache, first_df>>
    /\ UNCHANGED <<file, slider, multi, df_grouped, categories_unique,
                   min_year, max_year, selected_categories, filtered_df,
                   agg_pie, views>>

\* Lines 21-25: df_grouped and categories_unique.
Group ==
    /\ pc = "loaded"
    /\ pc' = "grouped"
    /\ df_grouped' = GroupBy(df)
    /\ categories_unique' = CategoriesUnique(GroupBy(df))
    /\ UNCHANGED <<file, cache, slider, multi, error, df, min_year, max_year,
                   selected_categories, filtered_df, agg_pie, views, first_df>>

\* Lines 28-52: the sidebar widgets are read, and filtered_df is built.
Filter ==
    /\ pc = "grouped"
    /\ pc' = "filtered"
    /\ LET range == WidgetValue(slider, SliderDefault)
           cats == WidgetValue(multi, categories_unique)
       IN  /\ min_year' = range[1]
           /\ max_year' = range[2]
           /\ selected_categories' = cats
           /\ filtered_df' =
                  Reindex(df_grouped, FromProduct(range[1], range[2], cats))
    /\ UNCHANGED <<file, cache, slider, multi, error, df, df_grouped,
                   categories_unique, agg_pie, views, first_df>>

\* Lines 55-112: the pie chart of agg_pie, the bar, line and dot charts of
\* filtered_df, and the table of filtered_df.
Present ==
    /\ pc = "filtered"
    /\ pc' = "done"
    /\ agg_pie' = AggPie(filtered_df)
    /\ views' = << [view |-> "pie", data |-> AggPie(filtered_df)],
                   [view |-> "bar", data |-> filtered_df],
                   [view |-> "line", data |-> filtered_df],
                   [view |-> "dot", data |-> filtered_df],
                   [view |-> "table", data |-> filtered_df] >>
    /\ UNCHANGED <<file, cache, slider, multi, error, df, df_grouped,
                   categories_unique, min_year, max_year, selected_categories,
                   filtered_df, first_df>>

----------------------------------------------------------------------------
(* The user.  A widget change stores the new value and re-runs the script. *)
(* The slider's handles are two of its options in order; the multiselect   *)
(* holds options, each at most once, in the order they were picked.        *)

\* The slider positions the model tries: the first, second and last option.
SliderStops == {years_full[1], years_full[2], years_full[Len(years_full)]}

SliderRanges == {<<lo, hi>> \in SliderStops \X SliderStops : lo <= hi}

Range(s) == {s[i] : i \in 1..Len(s)}

Selections(options) ==
    {s \in UNION {[1..n -> Range(options)] : n \in 0..Len(options)} :
        \A i, j \in 1..Len(s) : i # j => s[i] # s[j]}

SetYearRange ==
    /\ pc = "done"
    /\ \E r \in SliderRanges :
          /\ r # WidgetValue(slider, SliderDefault)
          /\ slider' = Set(r)
    /\ ScriptReset
    /\ UNCHANGED <<file, cache, multi, first_df>>

SetCategories ==
    /\ pc = "done"
    /\ \E s \in Selections(categories_unique) :
          /\ s # WidgetValue(multi, categories_unique)
          /\ multi' = Set(s)
    /\ ScriptReset
    /\ UNCHANGED <<file, cache, slider, first_df>>

\* "Rerun" from the app menu: the widgets keep their values.
Rerun ==
    /\ pc \in {"done", "failed"}
    /\ ScriptReset
    /\ UNCHANGED <<file, cache, slider, multi, first_df>>

----------------------------------------------------------------------------
(* Inputs.                                                                 *)

SeqsUpTo(S, n) == UNION {[1..k -> S] : k \in 0..n}

\* The spellings of one category, and another category.
paper == <<"p", "a", "p", "e", "r">>
_Paper == <<" ", "P", "a", "p", "e", "r">>
PAPER_ == <<"P", "A", "P", "E", "R", " ">>
glass == <<"g", "l", "a", "s", "s">>
Paper == <<"P", "a", "p", "e", "r">>
Glass == <<"G", "l", "a", "s", "s">>

\* Fields of the files the loader is tried on: empty, blank, unparseable and
\* valid ones.
LoadLabels == {<<>>, <<" ">>, paper, _Paper, PAPER_}
LoadWeights == {<<>>, <<"p">>, <<"-", "1">>, <<"0">>, <<"2">>}
LoadYears == {<<>>, <<"p">>, <<"2", "0", "0", "5">>}

LoadRecords == [Category : LoadLabels, Weight : LoadWeights, Year : LoadYears]

LoadFiles ==
    {Absent, Unreadable} \cup {Csv(rows) : rows \in SeqsUpTo(LoadRecords, MaxRecords)}

\* Fields of the files the dashboard is run on: two categories, one of them
\* spelled three ways, years inside and outside the slider's options, and one
\* row whose year is no number.
DashLabels == {paper, _Paper, PAPER_, glass}
DashWeights == {<<"1">>, <<"2">>}
DashYears == {<<"2", "0", "0", "4">>, <<"2", "0", "0", "5">>}

DashRecords ==
    [Category : DashLabels, Weight : DashWeights, Year : DashYears]
    \cup {[Category |-> glass, Weight |-> <<"1">>, Year |-> <<"p">>]}

DashFiles ==
    {Absent, Unreadable} \cup {Csv(rows) : rows \in SeqsUpTo(DashRecords, MaxRecords)}

InitScript ==
    /\ cache = Unset
    /\ pc = "start"
    /\ error = "none"
    /\ df = <<>>
    /\ df_grouped = <<>>
    /\ categories_unique = <<>>
    /\ min_year = 0
    /\ max_year = 0
    /\ selected_categories = <<>>
    /\ filtered_df = <<>>
    /\ agg_pie = <<>>
    /\ views = <<>>
    /\ first_df = Unset

----------------------------------------------------------------------------
(* The dashboard: a new process, untouched widgets, any file.              *)

Init ==
    /\ file \in DashFiles
    /\ slider = Unset
    /\ multi = Unset
    /\ InitScript

Next ==
    \/ Load
    \/ Group
    \/ Filter
    \/ Present
    \/ SetYearRange
    \/ SetCategories
    \/ Rerun

Spec == Init /\ [][Next]_vars

(* The loader alone, on every file of the loader's fields.                 *)

InitLoad ==
    /\ file \in LoadFiles
    /\ slider = Unset
    /\ multi = Unset
    /\ InitScript

NextLoad == Load

SpecLoad == InitLoad /\ [][NextLoad]_vars

(* One pass of the script on any year pair and any selection, also those   *)
(* the widgets never return: a range with its ends swapped, a category the *)
(* data does not have.                                                     *)

AnyRanges == SliderStops \X SliderStops

AnyCategories == <<Glass, Paper>>

InitPass ==
    /\ file \in DashFiles
    /\ slider \in {Set(r) : r \in AnyRanges}
    /\ multi \in {Set(s) : s \in Selections(AnyCategories)}
    /\ InitScript

NextPass ==
    \/ Load
    \/ Group
    \/ Filter
    \/ Present

SpecPass == InitPass /\ [][NextPass]_vars

----------------------------------------------------------------------------
(* Properties of the loader.                                               *)

Indices(q) == 1..Len(q)

Loaded == pc \in {"loaded", "grouped", "filtered", "done"}

\* A data row the cleaning is meant to keep: a category, a weight that is a
\* number, a year that is a number.
ValidRow(r) == r.Category # <<>> /\ IsNumeric(r.Weight) /\ IsNumeric(r.Year)

\* The Category column holds text, so line 12 applies.
HasTextCategory(f) ==
    f.rows = <<>> \/ \E i \in Indices(f.rows) : f.rows[i].Category # <<>>

\* C5: a data row whose weight or year is missing or is no number is dropped
\* and the load still succeeds: once load_data has run on a readable file, it
\* has returned, and returned as many records as the file has valid rows.
C5_BadNumbersAreDropped ==
    (pc # "start" /\ file.state = "present" /\ HasTextCategory(file))
        => /\ pc = "loaded"
           /\ error = "none"
           /\ Len(df) = Cardinality({i \in Indices(file.rows) : ValidRow(file.rows[i])})

\* What the code does instead: the load fails with ValueError exactly when a
\* row that survives dropna has a year that is no number; otherwise the valid
\* rows are returned.
C5_FailsOnUnparseableYear ==
    (pc # "start" /\ file.state = "present" /\ HasTextCategory(file))
        => LET stuck == \E i \in Indices(file.rows) :
                            /\ file.rows[i].Category # <<>>
                            /\ IsNumeric(file.rows[i].Weight)
                            /\ file.rows[i].Year # <<>>
                            /\ ~IsNumeric(file.rows[i].Year)
           IN  IF stuck
               THEN pc = "failed" /\ error = "ValueError"
               ELSE /\ pc = "loaded"
                    /\ Len(df) = Cardinality({i \in Indices(file.rows) :
                                                 ValidRow(file.rows[i])})

\* C6 as stated: every record load_data returns has a category, a weight that
\* is a number and is not negative, and an integer year.
C6_CleanRecordNonNegative ==
    pc = "loaded" =>
        \A i \in Indices(df) :
            /\ df[i].Category.k = "str"
            /\ df[i].Weight.k = "num"
            /\ df[i].Weight.v >= 0
            /\ df[i].Year.k = "num"

\* C6, amended: every record load_data returns has a category that is not
\* missing, a weight that is a number (of either sign) and an integer year,
\* and the rows with a missing category, a missing or unparseable weight or a
\* missing year are not among them.
C6_CleanRecord ==
    pc = "loaded" =>
        /\ \A i \in Indices(df) :
              /\ df[i].Category.k = "str"
              /\ df[i].Weight.k = "num"
              /\ df[i].Weight.v \in Int
              /\ df[i].Year.k = "num"
              /\ df[i].Year.v \in Int
        /\ Len(df) = Cardinality({i \in Indices(file.rows) : ValidRow(file.rows[i])})

C6_Witness ==
    /\ pc = "loaded"
    /\ Len(df) < Len(file.rows)
    /\ \E i \in Indices(df) : df[i].Weight.v < 0

----------------------------------------------------------------------------
(* Properties of the aggregate table.                                      *)

Filtered == pc \in {"filtered", "done"}

\* Sum of the weights of clean records, and of rows of a table.
RECURSIVE SumCells(_)
SumCells(rows) ==
    IF rows = <<>> THEN 0 ELSE Head(rows).Weight.v + SumCells(Tail(rows))

RECURSIVE SumRows(_)
SumRows(rows) ==
    IF rows = <<>> THEN 0 ELSE Head(rows).Weight + SumRows(Tail(rows))

\* The clean records of one year and category, and those of one category
\* within the selected years.
RecordsAt(y, c) ==
    LET At(r) == r.Year.v = y /\ r.Category.v = c
    IN  SelectSeq(df, At)

RecordsInRange(c) ==
    LET In(r) == r.Category.v = c /\ r.Year.v \in min_year..max_year
    IN  SelectSeq(df, In)

RowsOf(table, c) ==
    LET Of(r) == r.Category = c
    IN  SelectSeq(table, Of)

\* C1: the aggregate table has exactly one row for each year of the selected
\* range and each selected category, and no other row.
C1_OneRowPerKey ==
    Filtered =>
        LET C == Range(selected_categories)
            Y == min_year..max_year
        IN  /\ Len(filtered_df) = (max_year - min_year + 1) * Cardinality(C)
            /\ \A y \in Y, c \in C :
                  Cardinality({i \in Indices(filtered_df) :
                                  /\ filtered_df[i].Year = y
                                  /\ filtered_df[i].Category = c}) = 1
            /\ \A i \in Indices(filtered_df) :
                  filtered_df[i].Year \in Y /\ filtered_df[i].Category \in C

\* A category of the clean records is deselected and the table is not empty.
C1_Witness ==
    /\ pc = "done"
    /\ min_year < max_year
    /\ selected_categories # <<>>
    /\ \E i \in Indices(df) : df[i].Category.v \notin Range(selected_categories)

\* C2: every key of the selected grid has a row whose weight is the sum of the
\* weights of the clean records with that year and category, 0 when there is
\* none, and every row of the table is such a row.
C2_CellIsSum ==
    Filtered =>
        /\ \A y \in min_year..max_year, c \in Range(selected_categories) :
              \E i \in Indices(filtered_df) :
                  /\ filtered_df[i].Year = y
                  /\ filtered_df[i].Category = c
                  /\ filtered_df[i].Weight = SumCells(RecordsAt(y, c))
        /\ \A i \in Indices(filtered_df) :
              filtered_df[i].Weight =
                  SumCells(RecordsAt(filtered_df[i].Year, filtered_df[i].Category))

\* One cell sums two records, and another has no record and holds 0.
C2_Witness ==
    /\ pc = "done"
    /\ \E i \in Indices(filtered_df) :
          /\ Len(RecordsAt(filtered_df[i].Year, filtered_df[i].Category)) = 2
          /\ filtered_df[i].Weight = 3
    /\ \E i \in Indices(filtered_df) :
          /\ RecordsAt(filtered_df[i].Year, filtered_df[i].Category) = <<>>
          /\ filtered_df[i].Weight = 0

\* C3: for every selected category, the weights of its rows of the aggregate
\* table, and its total in agg_pie, add up to the weights of the clean
\* records of that category within the selected years; agg_pie has no other
\* category, and the whole table adds up to those records alone.
C3_Conservation ==
    /\ Filtered =>
          /\ \A c \in Range(selected_categories) :
                SumRows(RowsOf(filtered_df, c)) = SumCells(RecordsInRange(c))
          /\ LET Counted(r) == /\ r.Category.v \in Range(selected_categories)
                               /\ r.Year.v \in min_year..max_year
             IN  SumRows(filtered_df) = SumCells(SelectSeq(df, Counted))
    /\ pc = "done" =>
          /\ \A j \in Indices(agg_pie) :
                /\ agg_pie[j].Category \in Range(selected_categories)
                /\ agg_pie[j].Weight = SumCells(RecordsInRange(agg_pie[j].Category))
          /\ \A c \in Range(selected_categories) :
                Cardinality({j \in Indices(agg_pie) : agg_pie[j].Category = c}) = 1

\* A record outside the range, a record of a deselected category, and a
\* category total that is not 0.
C3_Witness ==
    /\ pc = "done"
    /\ \E i \in Indices(df) : df[i].Year.v \notin min_year..max_year
    /\ \E i \in Indices(df) : df[i].Category.v \notin Range(selected_categories)
    /\ \E j \in Indices(agg_pie) : agg_pie[j].Weight > 0

\* C4: with no category selected, or with the first year after the last, the
\* aggregate table has no row, the pass goes on to the views, and the category
\* totals and every view are those of the empty table.
Degenerate == selected_categories = <<>> \/ min_year > max_year

C4_DegenerateIsEmpty ==
    /\ (Filtered /\ Degenerate) => filtered_df = <<>> /\ error = "none"
    /\ (pc = "filtered" /\ Degenerate) => ENABLED Present
    /\ (pc = "done" /\ Degenerate) =>
          /\ agg_pie = <<>>
          /\ Len(views) = 5
          /\ \A i \in Indices(views) : views[i].data = <<>>

\* The pass has ended on a year range whose ends are swapped, with categories
\* selected and records loaded.
C4_Witness ==
    /\ pc = "done"
    /\ min_year > max_year
    /\ selected_categories # <<>>
    /\ df # <<>>

----------------------------------------------------------------------------
(* Properties of the dashboard.                                            *)

PaperSpellings == {paper, _Paper, PAPER_}

\* Sum of the Weight fields of the data rows with one of the given labels and
\* the given Year field.
RECURSIVE FieldSum(_, _, _)
FieldSum(rows, labels, year) ==
    IF rows = <<>> THEN 0
    ELSE (IF Head(rows).Category \in labels /\ Head(rows).Year = year
          THEN ParseInt(Head(rows).Weight) ELSE 0)
         + FieldSum(Tail(rows), labels, year)

\* C7: "paper", " Paper" and "PAPER " all become "Paper"; the data rows of one
\* year spelled in any of these ways are summed in the one cell (year, Paper);
\* and normalizing a normalized category changes nothing.
C7_SpellingsCollapse ==
    /\ \A l \in PaperSpellings : NormalizeCategory(Str(l)) = Str(Paper)
    /\ pc \in {"grouped", "filtered", "done"} =>
          \A i \in Indices(file.rows) :
              file.rows[i].Category \in PaperSpellings =>
                  LET y == file.rows[i].Year
                      cell == {j \in Indices(df_grouped) :
                                  /\ df_grouped[j].Year = ParseInt(y)
                                  /\ df_grouped[j].Category = Paper}
                  IN  /\ Cardinality(cell) = 1
                      /\ \A j \in cell :
                            df_grouped[j].Weight =
                                FieldSum(file.rows, PaperSpellings, y)
    /\ Loaded =>
          \A i \in Indices(df) :
              NormalizeCategory(df[i].Category) = df[i].Category
    /\ file.state = "present" =>
          \A i \in Indices(file.rows) :
              LET once == NormalizeCategory(Str(file.rows[i].Category))
              IN  NormalizeCategory(once) = once

\* Two rows of one year spell the category differently and share one cell.
C7_Witness ==
    /\ pc = "grouped"
    /\ Len(file.rows) = 2
    /\ file.rows[1].Category = paper
    /\ file.rows[2].Category = PAPER_
    /\ file.rows[1].Year = file.rows[2].Year
    /\ Len(df_grouped) = 1
    /\ df_grouped[1].Weight = 3

\* What the widgets hold now.
CurrentRange == IF slider.set THEN slider.v ELSE SliderDefault

CurrentCategories(grouped) ==
    IF multi.set THEN multi.v ELSE CategoriesUnique(grouped)

\* C8: in every run of one process, the clean records are those of the first
\* load, and the aggregate table is the reindex of their grouping on the year
\* range and categories the widgets hold now.
C8_RecomputedFromCurrentFilters ==
    /\ Loaded => first_df.set /\ df = first_df.v
    /\ cache.set => first_df.set /\ cache.v = first_df.v
    /\ Filtered =>
          LET grouped == GroupBy(first_df.v)
          IN  /\ min_year = CurrentRange[1]
              /\ max_year = CurrentRange[2]
              /\ selected_categories = CurrentCategories(grouped)
              /\ filtered_df =
                     Reindex(grouped,
                             FromProduct(CurrentRange[1], CurrentRange[2],
                                         CurrentCategories(grouped)))

\* A run on a changed year range and a changed selection, from the cache.
C8_Witness ==
    /\ pc = "done"
    /\ slider.set
    /\ multi.set
    /\ slider.v # SliderDefault
    /\ multi.v # categories_unique
    /\ filtered_df # <<>>
    /\ \E i \in Indices(filtered_df) : filtered_df[i].Weight > 0

\* C9: with the file absent or unreadable the run fails at the load: no table
\* is computed and no view is produced.
C9_NoFileNoDashboard ==
    file.state \in {"absent", "unreadable"} =>
        /\ pc \in {"start", "failed"}
        /\ pc = "failed" => error \in {"FileNotFoundError", "PermissionError"}
        /\ ~cache.set
        /\ df = <<>>
        /\ filtered_df = <<>>
        /\ agg_pie = <<>>
        /\ views = <<>>

C9_Witness == pc = "failed" /\ file.state = "absent" /\ error = "FileNotFoundError"

\* C10: in every run, 2005 <= min_year <= max_year <= 2025; the selected
\* categories are categories of the clean records, all of them while the
\* multiselect is untouched; every year of the aggregate table is in
\* 2005..2025; and the category totals count no record of another year.
C10_WithinTheYearOptions ==
    /\ Filtered =>
          /\ 2005 <= min_year /\ min_year <= max_year /\ max_year <= 2025
          /\ Range(selected_categories) \subseteq {df[i].Category.v : i \in Indices(df)}
          /\ ~multi.set =>
                Range(selected_categories) = {df[i].Category.v : i \in Indices(df)}
          /\ \A i \in Indices(filtered_df) : filtered_df[i].Year \in 2005..2025
    /\ pc = "done" =>
          \A j \in Indices(agg_pie) :
              LET In(r) == /\ r.Category.v = agg_pie[j].Category
                           /\ r.Year.v \in 2005..2025
                           /\ r.Year.v \in min_year..max_year
              IN  agg_pie[j].Weight = SumCells(SelectSeq(df, In))

\* A record of 2004 whose category is selected, beside one the table shows.
C10_Witness ==
    /\ pc = "done"
    /\ \E i \in Indices(df) :
          /\ df[i].Year.v < 2005
          /\ df[i].Category.v \in Range(selected_categories)
    /\ \E i \in Indices(filtered_df) : filtered_df[i].Weight > 0

====
